---------------------------- MODULE Spec2Model ----------------------------
(***************************************************************************)
(* A model of aggregate_payments.py (PaymentAggregation): one run reads    *)
(* the most recent unprocessed BPY331 file, builds a Payment per 29-line   *)
(* block, resolves each Payment to an account reference in the reference   *)
(* store, groups by reference, sums the amounts of every group and writes  *)
(* the aggregated records, a backup and the processed-file ledger.         *)
(*                                                                         *)
(* Text is modelled as a sequence of one-character strings, so that the    *)
(* slices the program takes ([1:-2]) and the formatting it applies act on  *)
(* characters, as in the source.                                           *)
(***************************************************************************)
EXTENDS Integers, Sequences, FiniteSets, TLC

(***************************************************************************)
(* Text                                                                    *)
(***************************************************************************)
Q == "\""

SP == " "

Quote(body) == <<Q>> \o body \o <<Q>>

DigitChars == <<"0", "1", "2", "3", "4", "5", "6", "7", "8", "9">>

IsDigit(c) == \E i \in 1..10 : DigitChars[i] = c

DigitVal(c) == (CHOOSE i \in 1..10 : DigitChars[i] = c) - 1

RECURSIVE IntToChars(_)
\* str(n) of a natural number n
IntToChars(n) ==
    IF n < 10 THEN <<DigitChars[n + 1]>>
    ELSE IntToChars(n \div 10) \o <<DigitChars[(n % 10) + 1]>>

RECURSIVE DigitsToInt(_)
DigitsToInt(s) ==
    IF s = <<>> THEN 0
    ELSE 10 * DigitsToInt(SubSeq(s, 1, Len(s) - 1)) + DigitVal(s[Len(s)])

\* Python's s[1:-2]: the first character and the last two characters removed
\* (get_sql_fields, and the amount in sum_payments).
Slice1m2(s) == SubSeq(s, 2, Len(s) - 2)

RECURSIVE StripWs(_)
\* str.strip() on the alphabet of the model: leading and trailing blanks removed
\* (float() ignores them).
StripWs(s) ==
    IF s = <<>> THEN s
    ELSE IF s[1] = SP THEN StripWs(Tail(s))
    ELSE IF s[Len(s)] = SP THEN StripWs(SubSeq(s, 1, Len(s) - 1))
    ELSE s

\* The position of the decimal point in s, or 0.
DotPos(s) == IF \E i \in 1..Len(s) : s[i] = "."
             THEN CHOOSE i \in 1..Len(s) : s[i] = "." /\ \A j \in 1..(i - 1) : s[j] # "."
             ELSE 0

(***************************************************************************)
(* float(text), for the decimal literals of the model's alphabet (digits,  *)
(* one optional point, blanks, quotes): [ok |-> FALSE] is ValueError,      *)
(* otherwise the value in hundredths.  The value is kept exact, which is   *)
(* what the double holds up to an error far below half a cent for the      *)
(* amounts and group sizes drawn here (every amount is below 2^31 cents);  *)
(* literals with more than two fraction digits are outside the model and   *)
(* are never drawn.                                                        *)
(***************************************************************************)
ParseFloat(text) ==
    LET s == StripWs(text)
        d == DotPos(s)
        ip == IF d = 0 THEN s ELSE SubSeq(s, 1, d - 1)
        fp == IF d = 0 THEN <<>> ELSE SubSeq(s, d + 1, Len(s))
        wellFormed == /\ Len(ip) + Len(fp) > 0
                      /\ \A i \in 1..Len(ip) : IsDigit(ip[i])
                      /\ \A i \in 1..Len(fp) : IsDigit(fp[i])
                      /\ Len(fp) <= 2
        frac == IF Len(fp) = 0 THEN 0
                ELSE IF Len(fp) = 1 THEN 10 * DigitVal(fp[1])
                ELSE 10 * DigitVal(fp[1]) + DigitVal(fp[2])
    IN  IF wellFormed THEN [ok |-> TRUE, cents |-> 100 * DigitsToInt(ip) + frac]
        ELSE [ok |-> FALSE, cents |-> 0]

\* '"{0:.2f}"'.format(total), total given in hundredths
Format2f(cents) ==
    Quote(IntToChars(cents \div 100) \o <<".">>
          \o <<DigitChars[((cents % 100) \div 10) + 1], DigitChars[(cents % 10) + 1]>>)

(***************************************************************************)
(* class Payment                                                           *)
(***************************************************************************)
\* The keys of Payment.defaults in their order, which is the order of the
\* instance's attributes and so of the lines written for a record.
FieldOrder ==
    << "interface_source", "batch_run_id", "posting_ref", "account_ref",
       "payee_type", "payee_name", "payee_address", "claim_ref",
       "claimant_name", "claimant_adddress", "amount", "posting_start_date",
       "posting_end_date", "payment_method", "creditor_account_ref",
       "sort_code", "bank_account", "bank_account_name",
       "building_society_num", "post_office_name", "post_office_address",
       "collection_flag", "document_num", "document_type", "replacement_flag",
       "effective_date", "blank_one", "blank_two", "document_date" >>

FieldNames == {FieldOrder[i] : i \in 1..Len(FieldOrder)}

\* SYSTIME = date.today().strftime('%d-%b-%Y').upper(), fixed for the run
SYSTIME == <<"0", "2", "-", "N", "O", "V", "-", "2", "0", "2", "6">>

NOT_SET == Quote(<<"N", "O", "T", SP, "S", "E", "T">>)

AGGREGATED == Quote(<<"A", "g", "g", "r", "e", "g", "a", "t", "e", "d", SP,
                      "D", "H", "P", SP, "U", "C", SP,
                      "P", "a", "y", "m", "e", "n", "t">>)

defaults ==
    [ interface_source     |-> Quote(<<"B", "E", "N">>),
      batch_run_id         |-> NOT_SET,
      posting_ref          |-> NOT_SET,
      account_ref          |-> NOT_SET,
      payee_type           |-> Quote(<<"C", "L">>),
      payee_name           |-> NOT_SET,
      payee_address        |-> NOT_SET,
      claim_ref            |-> NOT_SET,
      claimant_name        |-> AGGREGATED,
      claimant_adddress    |-> AGGREGATED,
      amount               |-> Quote(<<"a", "m", "o", "u", "n", "t">>),
      posting_start_date   |-> Quote(SYSTIME),
      posting_end_date     |-> Quote(SYSTIME),
      payment_method       |-> Quote(<<"B", "A", "C", "S">>),
      creditor_account_ref |-> Quote(<<>>),
      sort_code            |-> NOT_SET,
      bank_account         |-> NOT_SET,
      bank_account_name    |-> NOT_SET,
      building_society_num |-> NOT_SET,
      post_office_name     |-> Quote(<<>>),
      post_office_address  |-> Quote(<<>>),
      collection_flag      |-> Quote(<<"N">>),
      document_num         |-> Quote(<<>>),
      document_type        |-> Quote(<<>>),
      replacement_flag     |-> Quote(<<"N">>),
      effective_date       |-> Quote(SYSTIME),
      blank_one            |-> Quote(<<>>),
      blank_two            |-> Quote(<<>>),
      document_date        |-> Quote(<<>>) ]

\* Payment(**kwargs): the defaults, then the keyword arguments over them
Payment(kwargs) ==
    [k \in FieldNames |-> IF k \in DOMAIN kwargs THEN kwargs[k] ELSE defaults[k]]

\* Payment.get_sql_fields
get_sql_fields(p) ==
    [ bank_account         |-> Slice1m2(p.bank_account),
      sort_code            |-> Slice1m2(p.sort_code),
      payee_name           |-> Slice1m2(p.payee_name),
      building_society_num |-> Slice1m2(p.building_society_num) ]


(***************************************************************************)
(* create_payments                                                         *)
(***************************************************************************)
BlockSize == 29

\* lines[j] of the source, whose lists count from 0
At(lines, j) == lines[j + 1]

\* The largest offset create_payments reads in a block (lines[i + 18])
LastOffsetRead == 18

\* PaymentFromBlock with payee_name read from the payee_name line of the block
PaymentFromBlockOwnName(lines, i) ==
    Payment([ batch_run_id         |-> At(lines, i + 1),
              posting_ref          |-> At(lines, i + 2),
              payee_name           |-> At(lines, i + 5),
              payee_address        |-> At(lines, i + 6),
              claim_ref            |-> At(lines, i + 7),
              amount               |-> At(lines, i + 10),
              sort_code            |-> At(lines, i + 15),
              bank_account         |-> At(lines, i + 16),
              bank_account_name    |-> At(lines, i + 17),
              building_society_num |-> At(lines, i + 18) ])

\* The Payment built from the block that starts at index i (0-based)
PaymentFromBlock(lines, i) ==
    Payment([ batch_run_id         |-> At(lines, i + 1),
              posting_ref          |-> At(lines, i + 2),
              payee_name           |-> At(lines, i + 17),
              payee_address        |-> At(lines, i + 6),
              claim_ref            |-> At(lines, i + 7),
              amount               |-> At(lines, i + 10),
              sort_code            |-> At(lines, i + 15),
              bank_account         |-> At(lines, i + 16),
              bank_account_name    |-> At(lines, i + 17),
              building_society_num |-> At(lines, i + 18) ])

\* The indices range(1, len(lines), 29) visits
BlockStarts(lines) == {i \in 1..(Len(lines) - 1) : (i - 1) % BlockSize = 0}

\* create_payments(lines): [ok |-> FALSE] is the IndexError of a block whose
\* lines[i + 18] does not exist; otherwise the Payments in the order of the file.
create_payments(lines) ==
    LET starts == BlockStarts(lines)
        n == Cardinality(starts)
    IN  IF \E i \in starts : i + LastOffsetRead >= Len(lines)
        THEN [ok |-> FALSE, payments |-> <<>>]
        ELSE [ok |-> TRUE,
              payments |-> [k \in 1..n |-> PaymentFromBlock(lines, 1 + (k - 1) * BlockSize)]]

(***************************************************************************)
(* The reference store (the table behind sql/insert_query.sql and          *)
(* sql/select_query.sql): its rows are the identity keys inserted so far,  *)
(* and the reference of a key is the number of its row.                    *)
(***************************************************************************)
StoreHas(rows, key) == \E i \in 1..Len(rows) : rows[i] = key

\* insert_query: insert the key if no row holds it
StoreInsert(rows, key) == IF StoreHas(rows, key) THEN rows ELSE Append(rows, key)

\* select_query: the reference of the row that holds the key
StoreSelect(rows, key) == IntToChars(CHOOSE i \in 1..Len(rows) : rows[i] = key)

(***************************************************************************)
(* group_payments                                                          *)
(***************************************************************************)
RECURSIVE GroupFrom(_, _, _)
\* groups.setdefault(payment.account_ref, []).append(payment), for payments[k..]:
\* a dict keeps its keys in the order of their first insertion
GroupFrom(payments, k, groups) ==
    IF k > Len(payments) THEN groups
    ELSE LET p == payments[k]
             hit == {g \in 1..Len(groups) : groups[g].key = p.account_ref}
         IN  IF hit = {}
             THEN GroupFrom(payments, k + 1,
                            Append(groups, [key |-> p.account_ref, members |-> <<p>>]))
             ELSE LET g == CHOOSE x \in hit : TRUE
                  IN  GroupFrom(payments, k + 1,
                                [groups EXCEPT ![g].members = Append(@, p)])

group_payments(payments) == GroupFrom(payments, 1, <<>>)

(***************************************************************************)
(* sum_payments                                                            *)
(***************************************************************************)
\* float(payment.amount[1:-2])
AmountOf(p) == ParseFloat(Slice1m2(p.amount))

RECURSIVE TotalFrom(_, _)
\* total = 0; for payment in payments: total += amount
TotalFrom(members, k) ==
    IF k > Len(members) THEN 0
    ELSE AmountOf(members[k]).cents + TotalFrom(members, k + 1)

\* SummedPayment with the claim reference left to Payment's default
SummedPaymentNoClaimRef(members) ==
    Payment([ batch_run_id         |-> members[1].batch_run_id,
              posting_ref          |-> members[1].posting_ref,
              account_ref          |-> members[1].account_ref,
              payee_name           |-> members[1].payee_name,
              payee_address        |-> members[1].payee_address,
              amount               |-> Format2f(TotalFrom(members, 1)),
              sort_code            |-> members[1].sort_code,
              bank_account         |-> members[1].bank_account,
              bank_account_name    |-> members[1].bank_account_name,
              building_society_num |-> members[1].building_society_num ])

\* The Payment sum_payments appends for one group
SummedPayment(members) ==
    Payment([ batch_run_id         |-> members[1].batch_run_id,
              posting_ref          |-> members[1].posting_ref,
              account_ref          |-> members[1].account_ref,
              payee_name           |-> members[1].payee_name,
              payee_address        |-> members[1].payee_address,
              claim_ref            |-> members[1].claim_ref,
              amount               |-> Format2f(TotalFrom(members, 1)),
              sort_code            |-> members[1].sort_code,
              bank_account         |-> members[1].bank_account,
              bank_account_name    |-> members[1].bank_account_name,
              building_society_num |-> members[1].building_society_num ])

\* sum_payments(groups): [ok |-> FALSE] is the ValueError of float() on an
\* amount that is no number; otherwise one Payment per group, in the groups' order
sum_payments(groups) ==
    IF \E g \in 1..Len(groups) :
          \E k \in 1..Len(groups[g].members) : ~AmountOf(groups[g].members[k]).ok
    THEN [ok |-> FALSE, summed |-> <<>>]
    ELSE [ok |-> TRUE,
          summed |-> [g \in 1..Len(groups) |-> SummedPayment(groups[g].members)]]

\* The lines write_payments writes for one Payment: every attribute but
\* 'defaults', in the order of the instance's __dict__
RecordLines(p) == [i \in 1..Len(FieldOrder) |-> p[FieldOrder[i]]]

(***************************************************************************)
(* Files                                                                   *)
(***************************************************************************)
\* A file name is <<prefix, stem, suffix>>; get_file_name keeps the names that
\* start with 'bpy331_' and end with '.dat'.
FileA == <<"bpy331_", "a", ".dat">>

FileB == <<"bpy331_", "b", ".dat">>

OtherFile == <<"notes_", "x", ".txt">>

Names == {FileA, FileB, OtherFile}

DataPath(name) == [dir |-> "data", name |-> name]

\* f.replace('\\data', '\\archive'), the backup path the main block passes
archive(path) == [path EXCEPT !.dir = IF @ = "data" THEN "archive" ELSE @]

\* temp_new_file as the path read from: the records overwrite the original
temp_new_file_InPlace(path) == path

\* f.replace('\\data', '\\new'), the path write_payments writes to
temp_new_file(path) == [path EXCEPT !.dir = IF @ = "data" THEN "new" ELSE @]

Paths == [dir : {"data", "archive", "new"}, name : Names]

NoFile == [exists |-> FALSE, lines |-> <<>>]

File(lines) == [exists |-> TRUE, lines |-> lines]

NoPath == [dir |-> "", name |-> <<>>]

VARIABLES
    fs,        \* the file system: path -> [exists, lines]
    mtime,     \* st_mtime of the files of the data directory, by name
    ledger,    \* the lines of logs/already_checked.log
    log,       \* the lines of logs/payments.log
    store,     \* the rows of the reference store
    pc,        \* where the run stands
    exit,      \* the exit status of the process that ran last (-1 while running)
    failedAt,  \* the stage at which the run ended in an error ("" if none)
    f,         \* the file get_file_name chose
    lines,     \* read_file(f)
    payments,  \* create_payments(lines), resolved in place by query_payments
    qi,        \* the Payment query_payments is at
    groups,    \* group_payments(payments)
    summed,    \* sum_payments(groups)
    header,    \* the header write_payments read
    count,     \* write_payments' count of the records written
    appended,  \* whether this run appended f to the ledger
    log0,      \* the length of the run log when the run started
    ledger0,   \* the ledger when the run started
    runs       \* the runs that ended: the file each chose and whether it
               \* appended it to the ledger

vars == <<fs, mtime, ledger, log, store, pc, exit, failedAt, f, lines, payments,
          qi, groups, summed, header, count, appended, log0, ledger0, runs>>

locals == <<f, lines, payments, qi, groups, summed, header, count>>

world == <<fs, mtime, ledger, log, store>>

Ended == {"idle", "done", "exited", "crashed"}

\* The run number stands for WRITETIME, the time the run started
WRITETIME == Len(runs) + 1

EndOfRun == Append(runs, [file |-> f, appended |-> appended])

\* An exception nothing catches: the interpreter prints the traceback and ends
\* with status 1; nothing is written to the run log.
Uncaught(stage) ==
    /\ pc' = "crashed"
    /\ exit' = 1
    /\ failedAt' = stage
    /\ runs' = EndOfRun

(***************************************************************************)
(* get_file_name                                                           *)
(***************************************************************************)
\* timedelta(minutes=99999999)
DeltaMinutes == 99999999

\* datetime.now(), in minutes since the epoch
Now == 29900000

\* Eligible without the look at already_checked.log
EligibleUnchecked(files, times, checked) ==
    {p \in Paths :
        /\ p.dir = "data"
        /\ files[p].exists
        /\ p.name[1] = "bpy331_" /\ p.name[3] = ".dat"
        /\ times[p.name] > Now - DeltaMinutes}

\* The files that meet the rules, given the lines of already_checked.log
Eligible(files, times, checked) ==
    {p \in Paths :
        /\ p.dir = "data"
        /\ files[p].exists
        /\ p.name[1] = "bpy331_" /\ p.name[3] = ".dat"
        /\ times[p.name] > Now - DeltaMinutes
        /\ \A i \in 1..Len(checked) : checked[i] # p}

\* max(files_list, key=st_mtime)
Latest(files_list, times) ==
    CHOOSE p \in files_list : \A q \in files_list : times[q.name] <= times[p.name]

(***************************************************************************)
(* The main block, statement by statement                                  *)
(***************************************************************************)
MaxRuns == 2

StartRun ==
    /\ pc \in Ended
    /\ Len(runs) < MaxRuns
    /\ pc' = "config"
    /\ exit' = -1
    /\ failedAt' = ""
    /\ f' = NoPath
    /\ lines' = <<>>
    /\ payments' = <<>>
    /\ qi' = 0
    /\ groups' = <<>>
    /\ summed' = <<>>
    /\ header' = <<>>
    /\ count' = 0
    /\ appended' = FALSE
    /\ log0' = Len(log)
    /\ ledger0' = ledger
    /\ UNCHANGED <<world, runs>>

\* with open('.\\.config') as config_f: config = json.load(config_f)
LoadConfig ==
    /\ pc = "config"
    /\ pc' = "connect"
    /\ UNCHANGED <<world, locals, exit, failedAt, appended, log0, ledger0, runs>>

\* The .config file is missing or is no JSON: open or json.load raises, and
\* nothing catches it.
ConfigFault ==
    /\ pc = "config"
    /\ Uncaught("config")
    /\ UNCHANGED <<world, locals, appended, log0, ledger0>>

\* DB_CONN = pyodbc.connect(...)
Connect ==
    /\ pc = "connect"
    /\ pc' = "discover"
    /\ UNCHANGED <<world, locals, exit, failedAt, appended, log0, ledger0, runs>>

\* except pyodbc.InterfaceError as error: the error is logged, sys.exit(1)
ConnectInterfaceError ==
    /\ pc = "connect"
    /\ log' = Append(log, [time |-> WRITETIME, cause |-> "InterfaceError",
                           text |-> "", count |-> 0, total |-> 0, path |-> NoPath])
    /\ pc' = "exited"
    /\ exit' = 1
    /\ failedAt' = "connect"
    /\ runs' = EndOfRun
    /\ UNCHANGED <<fs, mtime, ledger, store, locals, appended, log0, ledger0>>

\* config lacks a key (KeyError), or pyodbc.connect raises an error that is no
\* InterfaceError: nothing catches it.
ConnectFault ==
    /\ pc = "connect"
    /\ Uncaught("connect")
    /\ UNCHANGED <<world, locals, appended, log0, ledger0>>

\* f = get_file_name('.\\data'); max() of an empty list raises ValueError, which
\* the main block logs "with just the current time" before sys.exit(1)
GetFileName ==
    /\ pc = "discover"
    /\ LET files_list == Eligible(fs, mtime, ledger)
       IN  IF files_list = {}
           THEN /\ log' = Append(log, [time |-> WRITETIME, cause |-> "",
                                       text |-> "", count |-> 0, total |-> 0,
                                       path |-> NoPath])
                /\ pc' = "exited"
                /\ exit' = 1
                /\ failedAt' = "discover"
                /\ runs' = EndOfRun
                /\ f' = f
           ELSE /\ f' = Latest(files_list, mtime)
                /\ pc' = "read"
                /\ UNCHANGED <<log, exit, failedAt, runs>>
    /\ UNCHANGED <<fs, mtime, ledger, store, lines, payments, qi, groups, summed,
                   header, count, appended, log0, ledger0>>

\* lines = read_file(f)
ReadFile ==
    /\ pc = "read"
    /\ lines' = fs[f].lines
    /\ pc' = "parse"
    /\ UNCHANGED <<world, f, payments, qi, groups, summed, header, count, exit,
                   failedAt, appended, log0, ledger0, runs>>

\* payments = create_payments(lines)
CreatePayments ==
    /\ pc = "parse"
    /\ LET r == create_payments(lines)
       IN  IF r.ok
           THEN /\ payments' = r.payments
                /\ qi' = 1
                /\ pc' = "query"
                /\ UNCHANGED <<exit, failedAt, runs>>
           ELSE /\ Uncaught("parse")
                /\ UNCHANGED <<payments, qi>>
    /\ UNCHANGED <<world, f, lines, groups, summed, header, count, appended, log0, ledger0>>

\* The key query_payments sends to the store for a Payment: the parameters of
\* select_query, which are also those of insert_query, given twice
KeySent(p) ==
    LET sql == get_sql_fields(p)
    IN  <<sql.bank_account, sql.sort_code, sql.payee_name, sql.building_society_num>>

\* One turn of query_payments' loop: insert the key if absent, commit, select
\* its reference and set it, quoted, as the Payment's account_ref
QueryPayment ==
    /\ pc = "query"
    /\ qi <= Len(payments)
    /\ LET key == KeySent(payments[qi])
           rows == StoreInsert(store, key)
       IN  /\ store' = rows
           /\ payments' = [payments EXCEPT
                             ![qi] = [@ EXCEPT !["account_ref"] =
                                         Quote(StoreSelect(rows, key))]]
    /\ qi' = qi + 1
    /\ UNCHANGED <<fs, mtime, ledger, log, pc, f, lines, groups, summed, header,
                   count, exit, failedAt, appended, log0, ledger0, runs>>

\* The store is unreachable, a query fails or a file of sql/ cannot be read:
\* the call raises, and nothing catches it.
StoreFault ==
    /\ pc = "query"
    /\ Uncaught("query")
    /\ UNCHANGED <<world, locals, appended, log0, ledger0>>

\* groups = group_payments(payments)
GroupPayments ==
    /\ pc = "query"
    /\ qi > Len(payments)
    /\ groups' = group_payments(payments)
    /\ pc' = "sum"
    /\ UNCHANGED <<world, f, lines, payments, qi, summed, header, count, exit,
                   failedAt, appended, log0, ledger0, runs>>

\* summed_payments = sum_payments(groups)
SumPayments ==
    /\ pc = "sum"
    /\ LET r == sum_payments(groups)
       IN  IF r.ok
           THEN /\ summed' = r.summed
                /\ pc' = "backup"
                /\ UNCHANGED <<exit, failedAt, runs>>
           ELSE /\ Uncaught("sum")
                /\ UNCHANGED summed
    /\ UNCHANGED <<world, f, lines, payments, qi, groups, header, count, appended,
                   log0, ledger0>>

(***************************************************************************)
(* write_payments(f, archive, summed_payments), statement by statement     *)
(***************************************************************************)
\* os.makedirs(...); shutil.copy2(path, backup)
WriteBackup ==
    /\ pc = "backup"
    /\ fs' = [fs EXCEPT ![archive(f)] = fs[f]]
    /\ pc' = "header"
    /\ UNCHANGED <<mtime, ledger, log, store, locals, exit, failedAt, appended,
                   log0, ledger0, runs>>

\* The backup cannot be written.
BackupFault ==
    /\ pc = "backup"
    /\ Uncaught("backup")
    /\ UNCHANGED <<world, locals, appended, log0, ledger0>>

\* header = read.read().splitlines()[0]: IndexError for a file with no line
ReadHeader ==
    /\ pc = "header"
    /\ IF Len(fs[f].lines) = 0
       THEN /\ Uncaught("header")
            /\ UNCHANGED header
       ELSE /\ header' = fs[f].lines[1]
            /\ pc' = "open"
            /\ UNCHANGED <<exit, failedAt, runs>>
    /\ UNCHANGED <<world, f, lines, payments, qi, groups, summed, count, appended,
                   log0, ledger0>>

\* with open(temp_new_file, 'w') as write: write.write(header)
OpenOutput ==
    /\ pc = "open"
    /\ fs' = [fs EXCEPT ![temp_new_file(f)] = File(<<header>>)]
    /\ pc' = "write"
    /\ UNCHANGED <<mtime, ledger, log, store, locals, exit, failedAt, appended,
                   log0, ledger0, runs>>

\* for payment in summed_payments: every field on a line of its own; count += 1
WriteRecord ==
    /\ pc = "write"
    /\ count < Len(summed)
    /\ fs' = [fs EXCEPT ![temp_new_file(f)] =
                File(@.lines \o RecordLines(summed[count + 1]))]
    /\ count' = count + 1
    /\ UNCHANGED <<mtime, ledger, log, store, pc, f, lines, payments, qi, groups,
                   summed, header, exit, failedAt, appended, log0, ledger0, runs>>

\* The output file cannot be opened or a write to it fails.
OutputFault ==
    /\ pc \in {"open", "write"}
    /\ Uncaught("output")
    /\ UNCHANGED <<world, locals, appended, log0, ledger0>>

\* already_checked.write(path), once the output file is closed
AppendLedger ==
    /\ pc = "write"
    /\ count = Len(summed)
    /\ ledger' = Append(ledger, f)
    /\ appended' = TRUE
    /\ pc' = "log"
    /\ UNCHANGED <<fs, mtime, log, store, locals, exit, failedAt, log0, ledger0, runs>>

\* The ledger cannot be opened for appending.
LedgerFault ==
    /\ pc = "write"
    /\ count = Len(summed)
    /\ Uncaught("ledger")
    /\ UNCHANGED <<world, locals, appended, log0, ledger0>>

\* log.write(success_string); write_payments returns and the script ends
LogSuccess ==
    /\ pc = "log"
    /\ log' = Append(log, [time |-> WRITETIME, cause |-> "",
                           text |-> "Successfully written", count |-> count,
                           total |-> Len(summed), path |-> f])
    /\ pc' = "done"
    /\ exit' = 0
    /\ runs' = EndOfRun
    /\ UNCHANGED <<fs, mtime, ledger, store, locals, failedAt, appended, log0, ledger0>>

\* The run log cannot be written after the ledger was.
LogFault ==
    /\ pc = "log"
    /\ Uncaught("log")
    /\ UNCHANGED <<world, locals, appended, log0, ledger0>>

(***************************************************************************)
(* The files a run may find: a header line, then 29-line blocks, one field *)
(* per line, every value in double quotes with possible trailing blanks.   *)
(***************************************************************************)
Ws(n) == [i \in 1..n |-> SP]

HeaderLine == <<"B", "P", "Y", "3", "3", "1">>

\* The identity lines of a record: bank account and bank account name
IdChoices ==
    { [bank |-> Quote(<<"a", "b">>) \o Ws(1), name |-> Quote(<<"n", "m">>) \o Ws(1)],
      [bank |-> Quote(<<"a", "b">>),          name |-> Quote(<<"n", "m">>) \o Ws(1)],
      [bank |-> Quote(<<"a", "b">>) \o Ws(2), name |-> Quote(<<"n", "m">>) \o Ws(1)],
      [bank |-> Quote(<<"a", "c">>),          name |-> Quote(<<"n", "m">>) \o Ws(1)],
      [bank |-> Quote(<<"a", "b">>) \o Ws(1), name |-> Quote(<<"n", "n">>) \o Ws(1)] }

Amounts ==
    { Quote(<<"5", ".", "0", "0">>) \o Ws(1),
      Quote(<<"7", ".", "5", "0">>) \o Ws(1),
      Quote(<<"1", "2", ".", "3", "4">>),
      Quote(<<"0", ".", "1", "0">>) \o Ws(2) }

RecordChoices == [id : IdChoices, amount : Amounts]

\* The 29 lines of the k-th record of a file
InputBlock(c, k) ==
    << Quote(<<"B", "E", "N">>),                  \* interface_source
       Quote(<<"R", "1">>),                       \* batch_run_id
       Quote(<<"P", DigitChars[k + 1]>>),         \* posting_ref
       Quote(<<"X">>),                            \* account_ref
       Quote(<<"C", "L">>),                       \* payee_type
       Quote(<<"p", "n">>),                       \* payee_name
       Quote(<<"a", "d">>) \o Ws(1),              \* payee_address
       Quote(<<"C", DigitChars[k + 1]>>),         \* claim_ref
       Quote(<<"c", "n">>),                       \* claimant_name
       Quote(<<"c", "a">>),                       \* claimant_adddress
       c.amount,                                  \* amount
       Quote(SYSTIME),                            \* posting_start_date
       Quote(SYSTIME),                            \* posting_end_date
       Quote(<<"B", "A", "C", "S">>),             \* payment_method
       Quote(<<>>),                               \* creditor_account_ref
       Quote(<<"0", "1">>) \o Ws(1),              \* sort_code
       c.id.bank,                                 \* bank_account
       c.id.name,                                 \* bank_account_name
       Quote(<<"0">>) \o Ws(1),                   \* building_society_num
       Quote(<<>>), Quote(<<>>), Quote(<<"N">>), Quote(<<>>), Quote(<<>>),
       Quote(<<"N">>), Quote(SYSTIME), Quote(<<>>), Quote(<<>>), Quote(<<>>) >>

RECURSIVE Blocks(_, _)
Blocks(cs, k) ==
    IF k > Len(cs) THEN <<>> ELSE InputBlock(cs[k], k) \o Blocks(cs, k + 1)

GoodChoice ==
    [id |-> [bank |-> Quote(<<"a", "b">>) \o Ws(1), name |-> Quote(<<"n", "m">>) \o Ws(1)],
     amount |-> Quote(<<"5", ".", "0", "0">>) \o Ws(1)]

\* A file of the records cs followed by the first tail lines of one more block
Content(cs, tail) ==
    <<HeaderLine>> \o Blocks(cs, 1) \o SubSeq(InputBlock(GoodChoice, Len(cs) + 1), 1, tail)

MaxRecords == 2

\* The lengths of a short trailing block that are drawn
Tails == {5, 19}

DataContents ==
    { Content(cs, 0) : cs \in UNION {[1..n -> RecordChoices] : n \in 0..MaxRecords} }
    \cup { Content(cs, t) : cs \in UNION {[1..n -> RecordChoices] : n \in 0..1},
                            t \in Tails }

BadAmountChoice == [GoodChoice EXCEPT !.amount = Quote(<<"0", ".", "1", "0">>) \o Ws(2)]

\* The files drawn where runs follow one another and the environment fails
RunContents ==
    { <<>>,
      Content(<<GoodChoice>>, 0),
      Content(<<GoodChoice, GoodChoice>>, 0),
      Content(<<GoodChoice>>, 5),
      Content(<<BadAmountChoice>>, 0) }

MTimes ==
    { [n \in Names |-> IF n = OtherFile THEN Now - 10
                       ELSE IF n = first THEN Now - 30 ELSE Now - 20]
      : first \in {FileA, FileB} }

InitWith(contentsA, contentsB, times) ==
    /\ \E a \in contentsA, b \in contentsB :
          fs = [p \in Paths |->
                  IF p = DataPath(FileA) THEN a
                  ELSE IF p = DataPath(FileB) THEN b
                  ELSE IF p = DataPath(OtherFile) THEN File(<<HeaderLine>>)
                  ELSE NoFile]
    /\ mtime \in times
    /\ ledger = <<>>
    /\ log = <<>>
    /\ store = <<>>
    /\ pc = "idle"
    /\ exit = -1
    /\ failedAt = ""
    /\ f = NoPath
    /\ lines = <<>>
    /\ payments = <<>>
    /\ qi = 0
    /\ groups = <<>>
    /\ summed = <<>>
    /\ header = <<>>
    /\ count = 0
    /\ appended = FALSE
    /\ log0 = 0
    /\ ledger0 = <<>>
    /\ runs = <<>>

FilesOf(contents) == {File(c) : c \in contents} \cup {NoFile}

\* Runs one after another over two files, in an environment that may fail
Init == InitWith(FilesOf(RunContents), FilesOf(RunContents), MTimes)

Next ==
    \/ StartRun
    \/ LoadConfig
    \/ ConfigFault
    \/ Connect
    \/ ConnectInterfaceError
    \/ ConnectFault
    \/ GetFileName
    \/ ReadFile
    \/ CreatePayments
    \/ QueryPayment
    \/ StoreFault
    \/ GroupPayments
    \/ SumPayments
    \/ WriteBackup
    \/ BackupFault
    \/ ReadHeader
    \/ OpenOutput
    \/ WriteRecord
    \/ OutputFault
    \/ AppendLedger
    \/ LedgerFault
    \/ LogSuccess
    \/ LogFault

Spec == Init /\ [][Next]_vars

\* One run over one file drawn from every content, in an environment that works
DataInit ==
    InitWith(FilesOf(DataContents), {NoFile}, {CHOOSE t \in MTimes : t[FileA] > t[FileB]})

FirstRun == StartRun /\ runs = <<>>

DataNext ==
    \/ FirstRun
    \/ LoadConfig
    \/ Connect
    \/ GetFileName
    \/ ReadFile
    \/ CreatePayments
    \/ QueryPayment
    \/ GroupPayments
    \/ SumPayments
    \/ WriteBackup
    \/ ReadHeader
    \/ OpenOutput
    \/ WriteRecord
    \/ AppendLedger
    \/ LogSuccess

DataSpec == DataInit /\ [][DataNext]_vars

(***************************************************************************)
(* What the claims speak of                                                *)
(***************************************************************************)
RECURSIVE RStripWs(_)
\* A text without its trailing blanks
RStripWs(s) ==
    IF s # <<>> /\ s[Len(s)] = SP THEN RStripWs(SubSeq(s, 1, Len(s) - 1)) ELSE s

\* A field value without its trailing blanks and its surrounding quotes
StripField(s) ==
    LET t == RStripWs(s)
    IN  IF Len(t) >= 2 /\ t[1] = Q /\ t[Len(t)] = Q THEN SubSeq(t, 2, Len(t) - 1) ELSE t

\* The identity tuple of a record, quotes and trailing blanks ignored
IdentityTuple(p) ==
    <<StripField(p.bank_account), StripField(p.sort_code), StripField(p.payee_name),
      StripField(p.building_society_num)>>

\* query_payments has resolved every record of the run
Resolved == pc \in {"sum", "backup", "header", "open", "write", "log", "done"}

\* sum_payments has returned
Summed == pc \in {"backup", "header", "open", "write", "log", "done"}

\* create_payments has returned
Parsed == pc \in {"query", "sum", "backup", "header", "open", "write", "log", "done"}

InSameGroup(p, q) ==
    \E g \in 1..Len(groups) :
        /\ \E k \in 1..Len(groups[g].members) : groups[g].members[k] = p
        /\ \E k \in 1..Len(groups[g].members) : groups[g].members[k] = q

\* The exact value, in hundredths, of a quoted decimal amount
ExactCents(amount) == ParseFloat(StripField(amount)).cents

RECURSIVE ExactTotal(_, _)
ExactTotal(members, k) ==
    IF k > Len(members) THEN 0
    ELSE ExactCents(members[k].amount) + ExactTotal(members, k + 1)

\* The index in payments of the first record resolved to the reference ref
FirstWith(ref) ==
    CHOOSE i \in 1..Len(payments) :
        /\ payments[i].account_ref = ref
        /\ \A j \in 1..(i - 1) : payments[j].account_ref # ref

\* The records that are the first of their reference, in the order of the file
FirstSeen == {i \in 1..Len(payments) :
                 \A j \in 1..(i - 1) : payments[j].account_ref # payments[i].account_ref}

\* The g-th of them
NthFirstSeen(g) ==
    CHOOSE i \in FirstSeen : Cardinality({j \in FirstSeen : j <= i}) = g

(***************************************************************************)
(* C3: two records of a run whose identity tuples are equal once quotes    *)
(* and trailing blanks are ignored get the same account_ref and are in the *)
(* same group.                                                             *)
(***************************************************************************)
C3_SameIdentitySameGroup ==
    Resolved =>
        \A i, j \in 1..Len(payments) :
            IdentityTuple(payments[i]) = IdentityTuple(payments[j]) =>
                /\ payments[i].account_ref = payments[j].account_ref
                /\ InSameGroup(payments[i], payments[j])

(***************************************************************************)
(* C10: two records of a run whose identity tuples differ once quotes and  *)
(* trailing blanks are ignored are sent to the store under different keys, *)
(* never get the same account_ref and are never in the same group.         *)
(***************************************************************************)
C10_DistinctIdentityDistinctKey ==
    Resolved =>
        \A i, j \in 1..Len(payments) :
            IdentityTuple(payments[i]) # IdentityTuple(payments[j]) =>
                /\ KeySent(payments[i]) # KeySent(payments[j])
                /\ payments[i].account_ref # payments[j].account_ref
                /\ ~InSameGroup(payments[i], payments[j])

(***************************************************************************)
(* C4: sum_payments returns one record per group, and the amount of that   *)
(* record is the exact sum of the amounts of the group's members, as a     *)
(* quoted number with two decimals.                                        *)
(***************************************************************************)
C4_ExactSumPerGroup ==
    /\ ~(pc = "crashed" /\ failedAt = "sum")
    /\ Summed =>
          /\ Len(summed) = Len(groups)
          /\ \A g \in 1..Len(groups) :
                summed[g].amount = Format2f(ExactTotal(groups[g].members, 1))

(***************************************************************************)
(* C5: create_payments on a header and 29*N + r lines returns N records    *)
(* and raises nothing: a short trailing block is dropped.                  *)
(***************************************************************************)
C5_ShortBlockDropped ==
    /\ ~(pc = "crashed" /\ failedAt = "parse" /\ Len(lines) >= 1)
    /\ Parsed /\ Len(lines) >= 1 => Len(payments) = (Len(lines) - 1) \div BlockSize

(***************************************************************************)
(* C6: the record sum_payments builds for a group equals the first member  *)
(* of the group in every field but amount.                                 *)
(***************************************************************************)
C6_OnlyAmountChanges ==
    Summed =>
        /\ Len(summed) = Cardinality(FirstSeen)
        /\ \A g \in 1..Len(summed) :
              \A k \in FieldNames \ {"amount"} :
                  summed[g][k] = payments[FirstWith(summed[g].account_ref)][k]

\* a group of two records that differ in a field other than amount was summed
C6_Witness ==
    /\ Summed
    /\ \E g \in 1..Len(groups) :
          /\ Len(groups[g].members) >= 2
          /\ groups[g].members[1].claim_ref # groups[g].members[2].claim_ref
          /\ summed[g].claim_ref = groups[g].members[1].claim_ref

(***************************************************************************)
(* C7: the record of a group of one has the amount of that one record.     *)
(* The claim is of the value and of the text; stated here is the value,    *)
(* which the text unchanged would carry with it.                           *)
(***************************************************************************)
C7_SingletonAmountUnchanged ==
    Summed =>
        \A g \in 1..Len(groups) :
            Len(groups[g].members) = 1 =>
                /\ Len(summed) >= g
                /\ ExactCents(summed[g].amount) = ExactCents(groups[g].members[1].amount)

(***************************************************************************)
(* The lines of the input and of the output of a run                       *)
(***************************************************************************)
\* The offset in its block of the line that holds field k
OffsetOf(k) == (CHOOSE i \in 1..Len(FieldOrder) : FieldOrder[i] = k) - 1

\* The line at offset o of the m-th block of a file's lines
BlockLine(text, m, o) == text[1 + (m - 1) * BlockSize + o + 1]

\* The fields create_payments reads from the line of the same name
CopiedFields ==
    {"batch_run_id", "posting_ref", "payee_address", "claim_ref", "sort_code",
     "bank_account", "bank_account_name", "building_society_num"}

\* The fields no line of the input reaches
StaticFields == FieldNames \ (CopiedFields \cup {"payee_name", "account_ref", "amount"})

\* A quoted number with two decimals
IsTwoDecimal(s) ==
    /\ Len(s) >= 6
    /\ s[1] = Q /\ s[Len(s)] = Q
    /\ s[Len(s) - 3] = "."
    /\ \A i \in 2..(Len(s) - 1) : i # Len(s) - 3 => IsDigit(s[i])

\* The expected output of the run: the header, then every summed record
RECURSIVE AllRecordLines(_, _)
AllRecordLines(ps, k) ==
    IF k > Len(ps) THEN <<>> ELSE RecordLines(ps[k]) \o AllRecordLines(ps, k + 1)

C2_NeverReprocessed ==
    \A i \in 1..Len(runs) :
        runs[i].appended =>
            /\ \A j \in (i + 1)..Len(runs) : runs[j].file # runs[i].file
            /\ pc \notin Ended => f # runs[i].file

\* after a run that appended its file, a later run chose the other file
C2_Witness ==
    /\ Len(runs) = 2
    /\ runs[1].appended
    /\ runs[2].file \notin {NoPath, runs[1].file}

(***************************************************************************)
(* C9: a run that ends in a fatal failure has a non-zero exit status and   *)
(* has appended to the run log an entry with its time and the cause.       *)
(***************************************************************************)
FatalStages ==
    {"config", "connect", "discover", "parse", "query", "sum", "backup", "header",
     "output"}

C9_FatalFailureLogged ==
    (pc \in {"exited", "crashed"} /\ failedAt \in FatalStages) =>
        /\ exit # 0
        /\ Len(log) > log0
        /\ log[Len(log)].time = Len(runs)
        /\ log[Len(log)].cause # ""

=============================================================================
